---- MODULE Spec2Model ----
(***************************************************************************)
(* Model of the NILM data pipeline of nilmtk-sandbox:                      *)
(*   src/src/time_series_uk_dale.py  (TimeSeries, TimeSeriesDataGenerator) *)
(*   src/src/data/generator.py       (simplified TimeSeriesDataGenerator)  *)
(*                                                                         *)
(* Series are sequences; a pandas Series with a time index is a sequence   *)
(* of records [t |-> timestamp in seconds, p |-> power].  The two source   *)
(* variants of the generator are told apart by the value of `variant`.     *)
(***************************************************************************)
EXTENDS Integers, Sequences, FiniteSets, TLC

VARIABLES
    \* --- _apply_min_durations applied to a binary trace ---
    raw_status,         \* the trace handed to the first application
    prev_status,        \* the trace handed to the latest application
    appliance_status,   \* the trace returned by the latest application
    min_on_duration,    \* seconds
    min_off_duration,   \* seconds
    passes              \* number of applications so far

debVars == <<raw_status, prev_status, appliance_status,
             min_on_duration, min_off_duration, passes>>

VARIABLES
    \* --- the windowing loop of _data_generator over one processed chunk ---
    win_mains,          \* mains_power returned by _process_data
    win_appliance,      \* appliance_power returned by _process_data
    win_size,           \* self.window_size
    win_k,              \* elements of the range already consumed by the loop
    win_out,            \* the windows yielded so far
    win_pc              \* "loop" | "done"

winVars == <<win_mains, win_appliance, win_size, win_k, win_out, win_pc>>

VARIABLES
    \* --- one call of _process_data ---
    proc_variant,       \* "uk_dale" (time_series_uk_dale.py) | "generator"
    proc_mains_in,      \* mains_power as passed in
    proc_appliance_in,  \* appliance_power as passed in
    proc_cfg,           \* the wandb_config fields _process_data reads
    proc_out,           \* [mains, appliance] as returned
    proc_pc             \* "call" | "returned"

procVars == <<proc_variant, proc_mains_in, proc_appliance_in, proc_cfg,
              proc_out, proc_pc>>

VARIABLES
    \* --- TimeSeries.__init__ / _compute_normalization_params ---
    training_buildings, \* per training building, the chunks mains.load() yields
    mean_power,         \* self.mean_power (None until computed)
    std_power,          \* self.std_power (None until computed)
    norm_pc             \* "new" | "constructed" | "raised"

normVars == <<training_buildings, mean_power, std_power, norm_pc>>

VARIABLES
    \* --- one TimeSeriesDataGenerator over the external store ---
    variant,            \* "uk_dale" (time_series_uk_dale.py) | "generator"
    wandb_config,       \* the configuration handed to __init__
    buildings,          \* self.buildings, each with what the store holds for it
    data_generator,     \* self.data_generator: where the generator object stands
    total_samples,      \* self.total_samples
    last,               \* outcome of the latest call on the object
    fetches,            \* __getitem__ calls made so far
    gen_pc              \* "new" | "ready" | "raised"

genVars == <<variant, wandb_config, buildings, data_generator, total_samples,
             last, fetches, gen_pc>>

vars == <<debVars, winVars, procVars, normVars, genVars>>

\* What each specification leaves alone.
notDeb == <<winVars, procVars, normVars, genVars>>
notWin == <<debVars, procVars, normVars, genVars>>
notProc == <<debVars, winVars, normVars, genVars>>
notNorm == <<debVars, winVars, procVars, genVars>>
notGen == <<debVars, winVars, procVars, normVars>>

(***************************************************************************)
(* Bounds of the model.                                                    *)
(***************************************************************************)
MaxTrace == 5       \* longest binary trace handed to _apply_min_durations
MaxDuration == 18   \* largest min_on_duration / min_off_duration (seconds)
MaxPasses == 2      \* applications of _apply_min_durations in a row
MaxSeries == 9      \* longest processed chunk handed to the windowing loop
MaxWindow == 4      \* largest window_size
MaxMainsIn == 2     \* longest mains series handed to _process_data
MaxApplianceIn == 3 \* longest appliance series handed to _process_data
MaxTrainBuildings == 2  \* training buildings
MaxTrainChunks == 1     \* chunks mains.load() yields per training building
MaxTrainChunkLen == 2   \* samples per training chunk
FloatMax == 100     \* largest finite magnitude of the model's floats
MaxBuildings == 2   \* buildings handed to a generator
MaxFetches == 4     \* __getitem__ calls on one generator

(***************************************************************************)
(* Program constants.                                                      *)
(***************************************************************************)
SamplePeriod == 6   \* the "* 6" of _apply_min_durations, the '6s' of resample
chunk_size == 1000000       \* rows per chunk of mains.load / appliance.load
time_delta == 15 * 86400    \* pd.Timedelta(15, 'days'), in seconds

(***************************************************************************)
(* Generic helpers.                                                        *)
(***************************************************************************)
Min(a, b) == IF a <= b THEN a ELSE b
Max(a, b) == IF a >= b THEN a ELSE b

\* The function f on 1..n as a sequence value (its elements evaluated once).
AsSeq(f) == f \o <<>>

\* All sequences over S of length lo..hi.
SeqsOf(S, lo, hi) == UNION {[1..n -> S] : n \in lo..hi}

(***************************************************************************)
(* _apply_min_durations, statement by statement.                           *)
(***************************************************************************)
\* appliance_status.diff().fillna(0)
status_changes(s) ==
    AsSeq([i \in 1..Len(s) |-> IF i = 1 THEN 0 ELSE s[i] - s[i - 1]])

\* (changes == v).cumsum()
cumsum_eq(changes, v) ==
    AsSeq([i \in 1..Len(changes) |-> Cardinality({j \in 1..i : changes[j] = v})])

\* g.groupby(g).transform('count') * 6
group_durations(g) ==
    AsSeq([i \in 1..Len(g) |->
        Cardinality({j \in 1..Len(g) : g[j] = g[i]}) * SamplePeriod])

\* on_groups = (status_changes == 1).cumsum() * appliance_status
on_groups(s) ==
    LET up == cumsum_eq(status_changes(s), 1)
    IN  AsSeq([i \in 1..Len(s) |-> up[i] * s[i]])

\* appliance_status[on_durations < min_on_duration] = 0
filter_short_on(s, min_on) ==
    LET on_durations == group_durations(on_groups(s))
    IN  AsSeq([i \in 1..Len(s) |-> IF on_durations[i] < min_on THEN 0 ELSE s[i]])

\* off_groups = (status_changes == -1).cumsum() * (1 - appliance_status)
\* status_changes is still the diff of the trace as it was passed in (s);
\* appliance_status is the trace after the on-filter (s1).
off_groups(s, s1) ==
    LET down == cumsum_eq(status_changes(s), -1)
    IN  AsSeq([i \in 1..Len(s) |-> down[i] * (1 - s1[i])])

\* appliance_status[off_durations < min_off_duration] = 1
filter_short_off(s, s1, min_off) ==
    LET off_durations == group_durations(off_groups(s, s1))
    IN  AsSeq([i \in 1..Len(s) |-> IF off_durations[i] < min_off THEN 1 ELSE s1[i]])

apply_min_durations(s, min_on, min_off) ==
    filter_short_off(s, filter_short_on(s, min_on), min_off)

(***************************************************************************)
(* Run decomposition of a binary trace, used to state the claims.          *)
(***************************************************************************)
\* <<i, j>> is a maximal run of value v in s (positions i..j).
IsMaximalRun(s, v, i, j) ==
    /\ i \in 1..Len(s) /\ j \in i..Len(s)
    /\ \A k \in i..j : s[k] = v
    /\ (i = 1 \/ s[i - 1] # v)
    /\ (j = Len(s) \/ s[j + 1] # v)

MaximalRuns(s, v) ==
    {r \in (1..Len(s)) \X (1..Len(s)) : IsMaximalRun(s, v, r[1], r[2])}

RunDuration(r) == (r[2] - r[1] + 1) * SamplePeriod

\* The single-pass reference: both filters read the raw run decomposition.
ReferenceDebounce(s, min_on, min_off) ==
    [i \in 1..Len(s) |->
        LET r == CHOOSE q \in MaximalRuns(s, s[i]) : q[1] <= i /\ i <= q[2]
        IN  IF s[i] = 1 /\ RunDuration(r) < min_on THEN 0
            ELSE IF s[i] = 0 /\ RunDuration(r) < min_off THEN 1
            ELSE s[i]]

(***************************************************************************)
(* The windowing loop of _data_generator (time_series_uk_dale.py):         *)
(*   for i in range(0, len(mains_power) - self.window_size + 1,            *)
(*                  self.window_size):                                     *)
(*       yield mains_power[i:i + W], appliance_power[i:i + W]              *)
(***************************************************************************)
\* Python's range(start, stop, step) as the sequence of its elements
\* (step # 0; range() raises ValueError for step = 0).
PyRange(start, stop, step) ==
    LET n == IF step > 0
             THEN Max(0, (stop - start + step - 1) \div step)
             ELSE Max(0, (start - stop + (-step) - 1) \div (-step))
    IN  AsSeq([k \in 1..n |-> start + (k - 1) * step])

\* Python's s[a:b] for 0 <= a: the elements at 0-based positions a..b-1,
\* cut at the end of s.
PySlice(s, a, b) == SubSeq(s, a + 1, Min(b, Len(s)))

\* Mutant of WindowStarts: the range runs to the end of the chunk, so a
\* trailing partial window is produced.
WindowStartsToEnd(len, window_size) ==
    PyRange(0, len, window_size)

\* range(0, len(mains_power) - self.window_size + 1, self.window_size)
WindowStarts(len, window_size) ==
    PyRange(0, len - window_size + 1, window_size)

\* mains_power[i:i + self.window_size], appliance_power[i:i + self.window_size]
WindowAt(mains, appliance, i, window_size) ==
    <<PySlice(mains, i, i + window_size), PySlice(appliance, i, i + window_size)>>

(***************************************************************************)
(* _process_data.  A series is a sequence of samples [t, p] in index       *)
(* order; the external store yields samples in timestamp order, possibly   *)
(* with duplicate or missing timestamps.  A mains value that may be        *)
(* missing is a record [nan, v].                                           *)
(***************************************************************************)
NaN == [nan |-> TRUE, v |-> 0]
Num(x) == [nan |-> FALSE, v |-> x]

\* The elements of s at the positions in I, in increasing position order.
TakePositions(s, I) ==
    AsSeq([k \in 1..Cardinality(I) |->
        s[CHOOSE i \in I : Cardinality({j \in I : j <= i}) = k]])

\* series.sort_index(): ascending by timestamp (equal timestamps keep their
\* relative order).
sort_index(s) ==
    LET rank(i) == Cardinality({j \in 1..Len(s) :
                       \/ s[j].t < s[i].t
                       \/ (s[j].t = s[i].t /\ j <= i)})
    IN  AsSeq([k \in 1..Len(s) |-> s[CHOOSE i \in 1..Len(s) : rank(i) = k]])

\* series[~series.index.duplicated(keep='first')]
drop_duplicated(s) ==
    TakePositions(s, {i \in 1..Len(s) : \A j \in 1..(i - 1) : s[j].t # s[i].t})

\* The bin labels of resample('6s'): every multiple of 6 s from the bin of
\* the first sample to the bin of the last one.
GridFirst(m) == (m[1].t \div SamplePeriod) * SamplePeriod
GridLast(m) == (m[Len(m)].t \div SamplePeriod) * SamplePeriod
OnGrid(m, t) ==
    /\ Len(m) > 0
    /\ t % SamplePeriod = 0
    /\ GridFirst(m) <= t /\ t <= GridLast(m)

\* mains_power.resample('6s').nearest(limit=1) at bin label g: the sample
\* nearest to g among the last one at or before g and the first one at or
\* after g, each reaching at most one period (limit=1); a tie goes to the
\* later one; NaN when neither reaches g.
resample_nearest_at(m, g) ==
    LET before == {i \in 1..Len(m) : m[i].t <= g /\ g - m[i].t <= SamplePeriod}
        after == {i \in 1..Len(m) : m[i].t >= g /\ m[i].t - g <= SamplePeriod}
        l == CHOOSE i \in before : \A j \in before : m[j].t <= m[i].t
        r == CHOOSE i \in after : \A j \in after : m[j].t >= m[i].t
    IN  IF before = {} /\ after = {} THEN NaN
        ELSE IF after = {} THEN Num(m[l].p)
        ELSE IF before = {} THEN Num(m[r].p)
        ELSE IF g - m[l].t < m[r].t - g THEN Num(m[l].p)
        ELSE Num(m[r].p)

\* Mutant of align_inner_grid: join='left', one row per grid label.
align_left_grid(m, a) ==
    LET labels == IF Len(m) = 0 THEN {}
                  ELSE {g \in GridFirst(m)..GridLast(m) : g % SamplePeriod = 0}
        n == Cardinality(labels)
    IN  AsSeq([k \in 1..n |->
            LET g == GridFirst(m) + (k - 1) * SamplePeriod
                hit == {i \in 1..Len(a) : a[i].t = g}
            IN  [t |-> g, m |-> resample_nearest_at(m, g),
                 a |-> IF hit = {} THEN 0 ELSE a[CHOOSE i \in hit : TRUE].p]])

\* mains_power.align(appliance_power, join='inner', axis=0) with mains on
\* the resampled grid (unique labels): one row per appliance sample whose
\* timestamp is a grid label.  Rows are [t, m, a].
align_inner_grid(m, a) ==
    LET rows == TakePositions(a, {i \in 1..Len(a) : OnGrid(m, a[i].t)})
    IN  AsSeq([k \in 1..Len(rows) |->
            [t |-> rows[k].t, m |-> resample_nearest_at(m, rows[k].t),
             a |-> rows[k].p]])

\* mains_power.align(appliance_power, join='inner', ...) with both indexes
\* sorted and unique: one row per timestamp present in both.
align_inner(m, a) ==
    LET rows == TakePositions(m,
                    {i \in 1..Len(m) : \E j \in 1..Len(a) : a[j].t = m[i].t})
    IN  AsSeq([k \in 1..Len(rows) |->
            [t |-> rows[k].t, m |-> Num(rows[k].p),
             a |-> (a[CHOOSE j \in 1..Len(a) : a[j].t = rows[k].t]).p]])

\* mains_power.ffill().bfill() over the aligned rows.
ffill_bfill(rows) ==
    AsSeq([k \in 1..Len(rows) |->
        LET prev == {j \in 1..k : ~rows[j].m.nan}
            next == {j \in k..Len(rows) : ~rows[j].m.nan}
        IN  IF prev # {} THEN rows[CHOOSE j \in prev : \A i \in prev : i <= j].m
            ELSE IF next # {} THEN rows[CHOOSE j \in next : \A i \in next : i >= j].m
            ELSE NaN])

\* series.clip(lower, upper); pandas orders the two scalar bounds first.
clip(x, lower, upper) ==
    LET lo == Min(lower, upper)
        hi == Max(lower, upper)
    IN  Min(Max(x, lo), hi)

\* (mains_power - self.mean_power) / (self.std_power + 1e-8), kept as the
\* exact fraction num/den; the 1e-8 is below the resolution of the model.
normalize(x, mean, std) ==
    IF x.nan THEN [nan |-> TRUE, num |-> 0, den |-> 1]
    ELSE [nan |-> FALSE, num |-> x.v - mean, den |-> std]

\* appliance_power > on_threshold, then _apply_min_durations
debounced_status(power, cfg) ==
    apply_min_durations(
        AsSeq([i \in 1..Len(power) |->
                  IF power[i] > cfg.on_threshold THEN 1 ELSE 0]),
        cfg.min_on_duration, cfg.min_off_duration)

\* _process_data of time_series_uk_dale.py.  Returns [mains, appliance].
process_data_uk_dale(mains_power, appliance_power, cfg, mean, std) ==
    LET clipped == AsSeq([i \in 1..Len(appliance_power) |->
                       [t |-> appliance_power[i].t,
                        p |-> clip(appliance_power[i].p,
                                   cfg.on_threshold, cfg.max_power)]])
        m == drop_duplicated(mains_power)
        rows == align_inner_grid(m, clipped)
        filled == ffill_bfill(rows)
        power == AsSeq([k \in 1..Len(rows) |-> rows[k].a])
        status == debounced_status(power, cfg)
    IN  [mains |-> AsSeq([k \in 1..Len(rows) |->
                       normalize(filled[k], mean, std)]),
         appliance |-> AsSeq([k \in 1..Len(rows) |-> power[k] * status[k]])]

\* _process_data of data/generator.py.  Returns [mains, appliance].
process_data_generator(mains_power, appliance_power, cfg, mean, std) ==
    LET m == drop_duplicated(sort_index(mains_power))
        a == drop_duplicated(sort_index(appliance_power))
        rows == align_inner(m, a)
        power == AsSeq([k \in 1..Len(rows) |-> rows[k].a])
        status == debounced_status(power, cfg)
        masked == AsSeq([k \in 1..Len(rows) |-> power[k] * status[k]])
        restored == AsSeq([k \in 1..Len(rows) |->
                        IF masked[k] = 0 THEN 1 ELSE masked[k]])
    IN  [mains |-> AsSeq([k \in 1..Len(rows) |->
                       normalize(rows[k].m, mean, std)]),
         appliance |-> AsSeq([k \in 1..Len(rows) |->
                       IF restored[k] = 1 THEN restored[k]
                       ELSE clip(restored[k], cfg.on_threshold, cfg.max_power)])]

process_data(v, mains_power, appliance_power, cfg, mean, std) ==
    IF v = "uk_dale"
    THEN process_data_uk_dale(mains_power, appliance_power, cfg, mean, std)
    ELSE process_data_generator(mains_power, appliance_power, cfg, mean, std)

(***************************************************************************)
(* Floating point, as far as _compute_normalization_params depends on it:  *)
(* a float is finite (an integer of magnitude <= FloatMax), +inf, -inf or  *)
(* NaN; a finite result beyond FloatMax overflows to an infinity.          *)
(***************************************************************************)
Fin(n) == [k |-> "fin", v |-> n]
PInf == [k |-> "inf", v |-> 1]
NInf == [k |-> "inf", v |-> -1]
FNaN == [k |-> "nan", v |-> 0]

Sign(n) == IF n > 0 THEN 1 ELSE IF n < 0 THEN -1 ELSE 0
Rounded(n) == IF n > FloatMax THEN PInf ELSE IF n < -FloatMax THEN NInf ELSE Fin(n)

fadd(a, b) ==
    IF a.k = "nan" \/ b.k = "nan" THEN FNaN
    ELSE IF a.k = "inf" /\ b.k = "inf" THEN (IF a.v = b.v THEN a ELSE FNaN)
    ELSE IF a.k = "inf" THEN a
    ELSE IF b.k = "inf" THEN b
    ELSE Rounded(a.v + b.v)

fneg(a) == [k |-> a.k, v |-> -a.v]
fsub(a, b) == fadd(a, fneg(b))

fmul(a, b) ==
    IF a.k = "nan" \/ b.k = "nan" THEN FNaN
    ELSE IF a.k = "inf" \/ b.k = "inf"
         THEN (IF a.v = 0 \/ b.v = 0 THEN FNaN
               ELSE IF Sign(a.v) = Sign(b.v) THEN PInf ELSE NInf)
    ELSE Rounded(a.v * b.v)

\* a / n for a count n >= 1 (the quotient rounded to the model's resolution)
fdiv_count(a, n) ==
    IF a.k = "fin" THEN Fin(Sign(a.v) * ((a.v * Sign(a.v)) \div n)) ELSE a

\* sqrt of a float that is not negative
fsqrt(a) ==
    IF a.k = "fin"
    THEN Fin(CHOOSE r \in 0..FloatMax : r * r <= a.v /\ (r + 1) * (r + 1) > a.v)
    ELSE a

math_isnan(a) == a.k = "nan"
IsFinite(a) == a.k = "fin"

RECURSIVE fsum(_)
fsum(s) == IF s = <<>> THEN Fin(0) ELSE fadd(s[1], fsum(Tail(s)))

\* The values a pandas reduction keeps under skipna=True.
NotNull(s) == SelectSeq(s, LAMBDA x : x.k # "nan")

\* Series.mean(): NaN for no valid value.
series_mean(s) ==
    LET valid == NotNull(s)
    IN  IF Len(valid) = 0 THEN FNaN ELSE fdiv_count(fsum(valid), Len(valid))

\* Series.std(): the sample standard deviation (ddof=1), NaN for fewer than
\* two valid values.
series_std(s) ==
    LET valid == NotNull(s)
        avg == series_mean(s)
        sqr == [i \in 1..Len(valid) |->
                   fmul(fsub(avg, valid[i]), fsub(avg, valid[i]))]
    IN  IF Len(valid) <= 1 THEN FNaN
        ELSE fsqrt(fdiv_count(fsum(sqr), Len(valid) - 1))

RECURSIVE Concat(_)
Concat(ss) == IF ss = <<>> THEN <<>> ELSE ss[1] \o Concat(Tail(ss))

\* The loops of _compute_normalization_params: every chunk of every training
\* building, appended to all_train_mains_power.
all_train_mains_power(bs) == Concat(bs)

\* _compute_normalization_params: [raised, mean_power, std_power].
compute_normalization_params(bs) ==
    LET chunks == all_train_mains_power(bs)
        combined == Concat(chunks)
        mean == series_mean(combined)
        std == series_std(combined)
    IN  IF chunks # <<>>
        THEN [raised |-> math_isnan(mean) \/ math_isnan(std),
              mean_power |-> mean, std_power |-> std]
        ELSE [raised |-> TRUE, mean_power |-> "None", std_power |-> "None"]

(***************************************************************************)
(* Specification SpecDebounce: a binary trace and two durations are drawn, *)
(* _apply_min_durations is applied, then applied again to its own output.  *)
(***************************************************************************)
IdleDebounce ==
    /\ raw_status = <<>> /\ prev_status = <<>> /\ appliance_status = <<>>
    /\ min_on_duration = 0 /\ min_off_duration = 0 /\ passes = 0

IdleProcess ==
    /\ proc_variant = "uk_dale" /\ proc_mains_in = <<>> /\ proc_appliance_in = <<>>
    /\ proc_cfg = [on_threshold |-> 0, max_power |-> 0,
                   min_on_duration |-> 0, min_off_duration |-> 0]
    /\ proc_out = [mains |-> <<>>, appliance |-> <<>>] /\ proc_pc = "idle"

IdleNorm ==
    /\ training_buildings = <<>> /\ mean_power = "None" /\ std_power = "None"
    /\ norm_pc = "idle"

IdleGen ==
    /\ variant = "uk_dale" /\ buildings = <<>>
    /\ wandb_config = [window_size |-> 1, batch_size |-> 1, max_power |-> 1,
                       on_threshold |-> 1, min_on_duration |-> 1,
                       min_off_duration |-> 1]
    /\ data_generator = [st |-> "none"] /\ total_samples = "None"
    /\ last = [op |-> "none"] /\ fetches = 0 /\ gen_pc = "idle"

IdleWindow ==
    /\ win_mains = <<>> /\ win_appliance = <<>> /\ win_size = 1
    /\ win_k = 0 /\ win_out = <<>> /\ win_pc = "idle"

InitDebounce ==
    /\ IdleWindow /\ IdleProcess /\ IdleNorm /\ IdleGen
    /\ raw_status \in SeqsOf({0, 1}, 0, MaxTrace)
    /\ prev_status = raw_status
    /\ appliance_status = raw_status
    /\ min_on_duration \in 0..MaxDuration
    /\ min_off_duration \in 0..MaxDuration
    /\ passes = 0

ApplyMinDurations ==
    /\ passes < MaxPasses
    /\ prev_status' = appliance_status
    /\ appliance_status' =
           apply_min_durations(appliance_status, min_on_duration, min_off_duration)
    /\ passes' = passes + 1
    /\ UNCHANGED <<raw_status, min_on_duration, min_off_duration>>
    /\ UNCHANGED notDeb

NextDebounce == ApplyMinDurations

SpecDebounce == InitDebounce /\ [][NextDebounce]_vars

\* C4: after one application every maximal on-run lasts at least
\* min_on_duration or contains a sample that was off in the raw trace, and
\* every maximal off-run lasts at least min_off_duration or contains a sample
\* that was on in the raw trace.
C4_RunsRespectMinDurations ==
    passes = 1 =>
        /\ \A r \in MaximalRuns(appliance_status, 1) :
              \/ RunDuration(r) >= min_on_duration
              \/ \E k \in r[1]..r[2] : raw_status[k] = 0
        /\ \A r \in MaximalRuns(appliance_status, 0) :
              \/ RunDuration(r) >= min_off_duration
              \/ \E k \in r[1]..r[2] : raw_status[k] = 1

\* C5: debouncing is idempotent: the second application returns the trace
\* it was given.
C5_Idempotent ==
    passes = 2 => appliance_status = prev_status

\* C10: one application returns the single-pass reference result computed
\* from the raw run decomposition alone.
C10_SinglePassReference ==
    passes = 1 =>
        appliance_status =
            ReferenceDebounce(raw_status, min_on_duration, min_off_duration)

(***************************************************************************)
(* Specification SpecWindow: one processed chunk of length 0..MaxSeries    *)
(* and a window_size >= 1 are drawn; the windowing loop runs one iteration *)
(* per step.  Samples are numbered so that a window shows which samples it *)
(* holds: mains sample n is n, appliance sample n is -n.                   *)
(***************************************************************************)
InitWindow ==
    /\ IdleDebounce /\ IdleProcess /\ IdleNorm /\ IdleGen
    /\ \E len \in 0..MaxSeries :
          /\ win_mains = [n \in 1..len |-> n]
          /\ win_appliance = [n \in 1..len |-> -n]
    /\ win_size \in 1..MaxWindow
    /\ win_k = 0
    /\ win_out = <<>>
    /\ win_pc = "loop"

\* One iteration of the for loop: the next i of the range, one yield.
YieldWindow ==
    /\ win_pc = "loop"
    /\ LET starts == WindowStarts(Len(win_mains), win_size)
       IN  /\ win_k < Len(starts)
           /\ win_out' = Append(win_out,
                  WindowAt(win_mains, win_appliance, starts[win_k + 1], win_size))
           /\ win_k' = win_k + 1
    /\ UNCHANGED <<win_mains, win_appliance, win_size, win_pc>>
    /\ UNCHANGED notWin

\* The range is used up: the loop over this chunk ends.
EndWindows ==
    /\ win_pc = "loop"
    /\ win_k >= Len(WindowStarts(Len(win_mains), win_size))
    /\ win_pc' = "done"
    /\ UNCHANGED <<win_mains, win_appliance, win_size, win_k, win_out>>
    /\ UNCHANGED notWin

NextWindow == YieldWindow \/ EndWindows

SpecWindow == InitWindow /\ [][NextWindow]_vars

\* C3: a chunk of length L yields exactly floor(L / W) windows; window k
\* (0-based) holds samples [k*W, (k+1)*W) of mains and of appliance, so the
\* windows tile [0, floor(L/W)*W) without overlap or gap, the trailing
\* L mod W samples are dropped and L < W yields nothing.
C3_WindowsTileTheChunk ==
    win_pc = "done" =>
        LET L == Len(win_mains)
            W == win_size
        IN  /\ Len(win_out) = L \div W
            /\ \A k \in 0..(Len(win_out) - 1) :
                  /\ win_out[k + 1][1] = [j \in 1..W |-> k * W + j]
                  /\ win_out[k + 1][2] = [j \in 1..W |-> -(k * W + j)]
            /\ (L < W => win_out = <<>>)

\* A chunk of two or more windows with trailing samples dropped.
C3_Witness ==
    /\ win_pc = "done"
    /\ Len(win_out) >= 2
    /\ Len(win_mains) % win_size # 0

(***************************************************************************)
(* Specification SpecProcess: one call of _process_data, in either source  *)
(* variant, on a pair of input streams in timestamp order with gaps,       *)
(* off-grid timestamps and duplicate timestamps.                           *)
(***************************************************************************)
TimeStamps == {0, 6, 7, 18}     \* seconds: on the 6 s grid, off it, after a gap
Powers == {0, 3, 9}             \* watts: off, on and in range, on and above max_power
ProcessMean == 20               \* mean_power used by the call
ProcessStd == 5                 \* std_power used by the call

IsTimeOrdered(s) == \A i \in 1..(Len(s) - 1) : s[i].t <= s[i + 1].t

\* Mains streams: sample i carries power 10 * i, so duplicates differ.
MainsInputs ==
    {[i \in 1..Len(ts) |-> [t |-> ts[i], p |-> 10 * i]] :
        ts \in {q \in SeqsOf(TimeStamps, 0, MaxMainsIn) :
                   \A i \in 1..(Len(q) - 1) : q[i] <= q[i + 1]}}

ApplianceInputs ==
    {s \in SeqsOf([t : TimeStamps, p : Powers], 0, MaxApplianceIn) : IsTimeOrdered(s)}

ProcessConfigs ==
    {[on_threshold |-> 2, max_power |-> 5,
      min_on_duration |-> 12, min_off_duration |-> 12]}

InitProcess ==
    /\ IdleDebounce /\ IdleWindow /\ IdleNorm /\ IdleGen
    /\ proc_variant \in {"uk_dale", "generator"}
    /\ proc_mains_in \in MainsInputs
    /\ proc_appliance_in \in ApplianceInputs
    /\ proc_cfg \in ProcessConfigs
    /\ proc_out = [mains |-> <<>>, appliance |-> <<>>]
    /\ proc_pc = "call"

ProcessData ==
    /\ proc_pc = "call"
    /\ proc_out' = process_data(proc_variant, proc_mains_in, proc_appliance_in,
                                proc_cfg, ProcessMean, ProcessStd)
    /\ proc_pc' = "returned"
    /\ UNCHANGED <<proc_variant, proc_mains_in, proc_appliance_in, proc_cfg>>
    /\ UNCHANGED notProc

NextProcess == ProcessData

SpecProcess == InitProcess /\ [][NextProcess]_vars

\* C6 as stated: the aligned series is no longer than the shorter of the two
\* inputs, and its mains and appliance outputs have equal length, in both
\* variants.
C6_AlignedNoLongerThanInputs ==
    proc_pc = "returned" =>
        /\ Len(proc_out.mains) = Len(proc_out.appliance)
        /\ Len(proc_out.mains) <= Min(Len(proc_mains_in), Len(proc_appliance_in))

\* C6 amended: the mains and appliance outputs have equal length, never more
\* than the appliance input; without the resampling step (data/generator.py)
\* never more than the mains input either.
C6_AlignedNoLongerThanAppliance ==
    proc_pc = "returned" =>
        /\ Len(proc_out.mains) = Len(proc_out.appliance)
        /\ Len(proc_out.mains) <= Len(proc_appliance_in)
        /\ (proc_variant = "generator" =>
               Len(proc_out.mains) <= Len(proc_mains_in))

\* Resampling filled a gap: the aligned series is longer than the mains input.
C6_Witness ==
    /\ proc_pc = "returned"
    /\ proc_variant = "uk_dale"
    /\ \A i, j \in 1..Len(proc_appliance_in) :
          i # j => proc_appliance_in[i].t # proc_appliance_in[j].t
    /\ Len(proc_out.mains) > Len(proc_mains_in)

(***************************************************************************)
(* Specification SpecNorm: TimeSeries is constructed over training mains   *)
(* data drawn from ordinary, huge, missing and infinite readings.          *)
(***************************************************************************)
TrainingValues == {Fin(1), Fin(3), Fin(60), Fin(-60), FNaN, PInf}

TrainingChunks == SeqsOf(TrainingValues, 0, MaxTrainChunkLen)

InitNorm ==
    /\ IdleDebounce /\ IdleWindow /\ IdleProcess /\ IdleGen
    /\ training_buildings \in
           SeqsOf(SeqsOf(TrainingChunks, 0, MaxTrainChunks), 0, MaxTrainBuildings)
    /\ mean_power = "None"
    /\ std_power = "None"
    /\ norm_pc = "new"

\* TimeSeries.__init__, which ends with _compute_normalization_params().
ConstructTimeSeries ==
    /\ norm_pc = "new"
    /\ LET r == compute_normalization_params(training_buildings)
       IN  /\ mean_power' = r.mean_power
           /\ std_power' = r.std_power
           /\ norm_pc' = IF r.raised THEN "raised" ELSE "constructed"
    /\ UNCHANGED training_buildings
    /\ UNCHANGED notNorm

NextNorm == ConstructTimeSeries

SpecNorm == InitNorm /\ [][NextNorm]_vars

\* No valid training sample: no building, no chunk, only empty chunks.
NoTrainingSamples ==
    Len(NotNull(Concat(all_train_mains_power(training_buildings)))) = 0

\* C7: construction fails when there is no training sample, and a
\* construction that succeeds leaves mean_power and std_power finite and
\* not NaN.
C7_NormalizationParamsFinite ==
    /\ (norm_pc # "new" /\ NoTrainingSamples => norm_pc = "raised")
    /\ (norm_pc = "constructed" => IsFinite(mean_power) /\ IsFinite(std_power))

(***************************************************************************)
(* The external store (nilmtk DataSet), per building:                      *)
(*   mains, appliance       the samples of the two meters, in time order   *)
(*   mains_tf, appliance_tf the time range [start, end] each meter covers  *)
(* A meter's load(chunksize=n) yields its rows in blocks of n; its         *)
(* power_series(sections=[TimeFrame(start, end)]) yields the samples with  *)
(* start <= t < end.                                                       *)
(***************************************************************************)
Chunked(series, size) ==
    AsSeq([c \in 1..((Len(series) + size - 1) \div size) |->
        SubSeq(series, (c - 1) * size + 1, Min(c * size, Len(series)))])

\* zip(mains.load(chunksize=chunk_size), appliance.load(chunksize=chunk_size))
zip_load(building) ==
    LET m == Chunked(building.mains, chunk_size)
        a == Chunked(building.appliance, chunk_size)
    IN  AsSeq([c \in 1..Min(Len(m), Len(a)) |-> <<m[c], a[c]>>])

power_series(series, start, end) ==
    SelectSeq(series, LAMBDA x : start <= x.t /\ x.t < end)

\* self.mean_power and self.std_power handed to the generator.
GenMean == 20
GenStd == 5

(***************************************************************************)
(* The generator object made by _data_generator().  Its position is        *)
(*   st = "created"    not started                                         *)
(*   st = "suspended"  stopped at a yield: building b and, in              *)
(*                     time_series_uk_dale.py, chunk c of the zip and the  *)
(*                     k-th element of the window range; in generator.py   *)
(*                     the loop variables current_start, current_end       *)
(*   st = "done"       returned: every later next() raises StopIteration   *)
(* next() gives [stop, gen, item]: stop for StopIteration, else the        *)
(* yielded item and the new position.                                      *)
(***************************************************************************)
Created == [st |-> "created", b |-> 0, c |-> 0, k |-> 0,
            current_start |-> 0, current_end |-> 0]
Finished == [st |-> "done", b |-> 0, c |-> 0, k |-> 0,
             current_start |-> 0, current_end |-> 0]
StopIteration == [stop |-> TRUE, gen |-> Finished, item |-> <<>>]

\* time_series_uk_dale.py _data_generator: run from (building b, chunk c,
\* range element k) to the next yield.
RECURSIVE uk_dale_resume(_, _, _, _, _)

\* for i in range(...): yield the k-th window of the processed chunk `out`,
\* or go on to the next chunk when the range is used up.
uk_dale_for_window(bs, cfg, b, c, k, out, starts) ==
    IF k <= Len(starts)
    THEN [stop |-> FALSE,
          gen |-> [st |-> "suspended", b |-> b, c |-> c, k |-> k,
                   current_start |-> 0, current_end |-> 0],
          item |-> WindowAt(out.mains, out.appliance, starts[k], cfg.window_size)]
    ELSE uk_dale_resume(bs, cfg, b, c + 1, 1)

\* The body of the chunk loop after _process_data returned `out`.
uk_dale_processed(bs, cfg, b, c, k, out) ==
    uk_dale_for_window(bs, cfg, b, c, k, out,
                       WindowStarts(Len(out.mains), cfg.window_size))

\* for mains_chunk, appliance_chunk in zip(...): chunk c of `chunks`, or the
\* next building when the zip is used up.
uk_dale_for_chunk(bs, cfg, b, c, k, chunks) ==
    IF c > Len(chunks) THEN uk_dale_resume(bs, cfg, b + 1, 1, 1)
    ELSE uk_dale_processed(bs, cfg, b, c, k,
             process_data_uk_dale(chunks[c][1], chunks[c][2], cfg, GenMean, GenStd))

\* for building in self.buildings: building b, or the end of the generator.
uk_dale_resume(bs, cfg, b, c, k) ==
    IF b > Len(bs) THEN StopIteration
    ELSE uk_dale_for_chunk(bs, cfg, b, c, k, zip_load(bs[b]))

\* generator.py _data_generator: the overlapping period of a building.
start_date(building) == Max(building.appliance_tf.start, building.mains_tf.start)
end_date(building) == Min(building.appliance_tf.end, building.mains_tf.end)

\* generator.py _data_generator: the yield of the while body, with the
\* loop variables as the body leaves them (current_start is not assigned).
generator_yield(b, current_start, current_end, out) ==
    [stop |-> FALSE,
     gen |-> [st |-> "suspended", b |-> b, c |-> 0, k |-> 0,
              current_start |-> current_start, current_end |-> current_end],
     item |-> <<out.mains, out.appliance>>]

\* The while body once current_end is set: load both meters over
\* [current_start, current_end), process, yield.
generator_while_body(bs, cfg, b, current_start, current_end) ==
    generator_yield(b, current_start, current_end,
        process_data_generator(
            power_series(bs[b].mains, current_start, current_end),
            power_series(bs[b].appliance, current_start, current_end),
            cfg, GenMean, GenStd))

\* generator.py _data_generator: run from the while test of building b with
\* the loop variables (current_start, current_end) to the next yield.
RECURSIVE generator_resume(_, _, _, _, _)
generator_resume(bs, cfg, b, current_start, current_end) ==
    IF b > Len(bs) THEN StopIteration
    ELSE IF current_end < end_date(bs[b])
    THEN generator_while_body(bs, cfg, b, current_start,
             Min(current_start + time_delta, end_date(bs[b])))
    ELSE IF b + 1 > Len(bs) THEN StopIteration
    ELSE generator_resume(bs, cfg, b + 1,
                          start_date(bs[b + 1]), start_date(bs[b + 1]))

\* Mutant of resume_point: the window loop is resumed at the element it
\* stopped at, so the window already delivered is delivered again.
resume_point_same_window(v, bs, gen) ==
    IF gen.st = "created"
    THEN [b |-> 1, c |-> 1, k |-> 1,
          current_start |-> IF v = "generator" /\ Len(bs) > 0
                            THEN start_date(bs[1]) ELSE 0,
          current_end |-> IF v = "generator" /\ Len(bs) > 0
                          THEN start_date(bs[1]) ELSE 0]
    ELSE [b |-> gen.b, c |-> gen.c, k |-> gen.k,
          current_start |-> gen.current_start, current_end |-> gen.current_end]

\* The position next() resumes from: [b, c, k, current_start, current_end].
resume_point(v, bs, gen) ==
    IF gen.st = "created"
    THEN [b |-> 1, c |-> 1, k |-> 1,
          current_start |-> IF v = "generator" /\ Len(bs) > 0
                            THEN start_date(bs[1]) ELSE 0,
          current_end |-> IF v = "generator" /\ Len(bs) > 0
                          THEN start_date(bs[1]) ELSE 0]
    ELSE [b |-> gen.b, c |-> gen.c, k |-> gen.k + 1,
          current_start |-> gen.current_start, current_end |-> gen.current_end]

generator_next_from(v, bs, cfg, at) ==
    IF v = "uk_dale" THEN uk_dale_resume(bs, cfg, at.b, at.c, at.k)
    ELSE generator_resume(bs, cfg, at.b, at.current_start, at.current_end)

\* next(self.data_generator)
generator_next(v, bs, cfg, gen) ==
    IF gen.st = "done" THEN StopIteration
    ELSE generator_next_from(v, bs, cfg, resume_point(v, bs, gen))

\* The loop of __getitem__ with n iterations left: [raised, gen, X, y].
\* raised: the next() in the except branch raised StopIteration as well,
\* which leaves __getitem__.
RECURSIVE getitem_loop(_, _, _, _, _, _, _)

\* batch_X.append(X); batch_y.append(y) with what next() gave, or the
\* StopIteration of the second next() leaving the method.
getitem_append(v, bs, cfg, n, batch_X, batch_y, got) ==
    IF got.stop
    THEN [raised |-> TRUE, gen |-> got.gen, X |-> <<>>, y |-> <<>>]
    ELSE getitem_loop(v, bs, cfg, n - 1, got.gen,
                      Append(batch_X, got.item[1]), Append(batch_y, got.item[2]))

\* try: X, y = next(self.data_generator)
\* except StopIteration: self.data_generator = self._data_generator()
\*                       X, y = next(self.data_generator)
getitem_try(v, bs, cfg, n, batch_X, batch_y, first) ==
    IF first.stop
    THEN getitem_append(v, bs, cfg, n, batch_X, batch_y,
                        generator_next(v, bs, cfg, Created))
    ELSE getitem_append(v, bs, cfg, n, batch_X, batch_y, first)

getitem_loop(v, bs, cfg, n, gen, batch_X, batch_y) ==
    IF n <= 0
    THEN [raised |-> FALSE, gen |-> gen, X |-> batch_X, y |-> batch_y]
    ELSE getitem_try(v, bs, cfg, n, batch_X, batch_y,
                     generator_next(v, bs, cfg, gen))

\* np.array(batch) stacks arrays of one shape; for arrays of different
\* lengths the result depends on the numpy version: an array of objects or
\* a ValueError.
SameShape(batch) == \A i, j \in 1..Len(batch) : Len(batch[i]) = Len(batch[j])

getitem_outcomes(r) ==
    IF r.raised
    THEN {[op |-> "getitem", kind |-> "StopIteration", X |-> <<>>, y |-> <<>>]}
    ELSE {[op |-> "getitem", kind |-> "returned", X |-> r.X, y |-> r.y]}
         \cup (IF SameShape(r.X) /\ SameShape(r.y) THEN {}
               ELSE {[op |-> "getitem", kind |-> "ValueError",
                      X |-> <<>>, y |-> <<>>]})

RECURSIVE SumSeq(_)
SumSeq(s) == IF s = <<>> THEN 0 ELSE s[1] + SumSeq(Tail(s))

\* What _count_samples adds per building: the rows of the first chunk of
\* mains.load() (time_series_uk_dale.py), the seconds between the start and
\* the end of the mains timeframe metadata (generator.py).
count_rows(v, building) ==
    IF v = "uk_dale" THEN Len(Chunked(building.mains, chunk_size)[1])
    ELSE building.mains_tf.end - building.mains_tf.start

\* _count_samples: [kind, type, v].  next() on a load that yields no chunk
\* raises StopIteration; // by a zero window_size raises ZeroDivisionError.
\* generator.py adds total_seconds(), a float, so its result is a float.
count_samples(v, bs, cfg) ==
    LET rows == AsSeq([i \in 1..Len(bs) |-> count_rows(v, bs[i])])
    IN  IF v = "uk_dale" /\ \E i \in 1..Len(bs) : Len(bs[i].mains) = 0
        THEN [kind |-> "StopIteration", type |-> "none", v |-> 0]
        ELSE IF cfg.window_size = 0
        THEN [kind |-> "ZeroDivisionError", type |-> "none", v |-> 0]
        ELSE [kind |-> "returned",
              type |-> IF v = "uk_dale" \/ bs = <<>> THEN "int" ELSE "float",
              v |-> SumSeq(rows) \div cfg.window_size]

(***************************************************************************)
(* Specification SpecGen: a generator of either variant is constructed     *)
(* over a store and a configuration, well-formed or not, then asked for    *)
(* its length and for batches.                                             *)
(***************************************************************************)
MainsPower(i) == 20 + i
AppliancePower(i) == IF i % 3 = 0 THEN 0 ELSE IF i % 3 = 1 THEN 3 ELSE 9

\* n mains / appliance samples every 6 s from t0.
MainsSeries(n, t0) ==
    AsSeq([i \in 1..n |-> [t |-> t0 + SamplePeriod * (i - 1), p |-> MainsPower(i)]])
ApplianceSeries(n, t0) ==
    AsSeq([i \in 1..n |-> [t |-> t0 + SamplePeriod * (i - 1), p |-> AppliancePower(i)]])

Timeframe(series) ==
    IF series = <<>> THEN [start |-> 0, end |-> 0]
    ELSE [start |-> series[1].t, end |-> series[Len(series)].t]

\* A building with nm mains and na appliance samples from t = 0 and `far`
\* more samples of each from 15 days on.
Building(nm, na, far) ==
    LET m == MainsSeries(nm, 0) \o MainsSeries(far, time_delta)
        a == ApplianceSeries(na, 0) \o ApplianceSeries(far, time_delta)
    IN  [mains |-> m, appliance |-> a,
         mains_tf |-> Timeframe(m), appliance_tf |-> Timeframe(a)]

BuildingCatalog ==
    {Building(0, 0, 0), Building(1, 1, 0), Building(4, 3, 0), Building(5, 7, 0),
     Building(3, 3, 2)}

WellFormedConfigs ==
    [window_size : {1, 2, 3}, batch_size : {1, 2}, max_power : {5},
     on_threshold : {2}, min_on_duration : {12}, min_off_duration : {12}]

BaseConfig ==
    [window_size |-> 2, batch_size |-> 2, max_power |-> 5, on_threshold |-> 2,
     min_on_duration |-> 12, min_off_duration |-> 12]

\* One field of the base configuration set to zero or to a negative value.
MalformedConfigs ==
    {[BaseConfig EXCEPT ![f] = x] :
        f \in {"window_size", "batch_size", "max_power", "on_threshold",
               "min_on_duration", "min_off_duration"},
        x \in {0, -1}}

ConfigWellFormed(cfg) ==
    /\ cfg.window_size > 0 /\ cfg.batch_size > 0
    /\ cfg.on_threshold > 0 /\ cfg.max_power > 0
    /\ cfg.min_on_duration > 0 /\ cfg.min_off_duration > 0

InitGen ==
    /\ IdleDebounce /\ IdleWindow /\ IdleProcess /\ IdleNorm
    /\ variant \in {"uk_dale", "generator"}
    /\ wandb_config \in WellFormedConfigs \cup MalformedConfigs
    /\ buildings \in SeqsOf(BuildingCatalog, 0, MaxBuildings)
    /\ data_generator = [st |-> "none"]
    /\ total_samples = "None"
    /\ last = [op |-> "none"]
    /\ fetches = 0
    /\ gen_pc = "new"

\* TimeSeriesDataGenerator.__init__: the fields are stored as given, the
\* generator object is made, _count_samples() runs.
Construct ==
    /\ gen_pc = "new"
    /\ LET r == count_samples(variant, buildings, wandb_config)
       IN  /\ data_generator' = Created
           /\ total_samples' = IF r.kind = "returned"
                               THEN [type |-> r.type, v |-> r.v] ELSE "None"
           /\ gen_pc' = IF r.kind = "returned" THEN "ready" ELSE "raised"
           /\ last' = [op |-> "init", kind |-> r.kind]
    /\ UNCHANGED <<variant, wandb_config, buildings, fetches>>
    /\ UNCHANGED notGen

\* __len__: self.total_samples // self.batch_size
LenCall ==
    /\ gen_pc = "ready"
    /\ last' = IF wandb_config.batch_size = 0
               THEN [op |-> "len", kind |-> "ZeroDivisionError"]
               ELSE [op |-> "len", kind |-> "returned",
                     type |-> total_samples.type,
                     value |-> total_samples.v \div wandb_config.batch_size]
    /\ UNCHANGED <<variant, wandb_config, buildings, data_generator,
                   total_samples, fetches, gen_pc>>
    /\ UNCHANGED notGen

\* __getitem__(index); index is not read.
GetItem ==
    /\ gen_pc = "ready"
    /\ fetches < MaxFetches
    /\ LET r == getitem_loop(variant, buildings, wandb_config,
                             wandb_config.batch_size, data_generator, <<>>, <<>>)
       IN  /\ data_generator' = r.gen
           /\ last' \in getitem_outcomes(r)
    /\ fetches' = fetches + 1
    /\ UNCHANGED <<variant, wandb_config, buildings, total_samples, gen_pc>>
    /\ UNCHANGED notGen

NextGen == Construct \/ LenCall \/ GetItem

SpecGen == InitGen /\ [][NextGen]_vars

\* C1: no __getitem__ call lets StopIteration escape, however many calls
\* were made before it (here for a well-formed configuration).
C1_NoStopIterationEscapes ==
    (ConfigWellFormed(wandb_config) /\ last.op = "getitem")
        => last.kind # "StopIteration"

\* C2: for a well-formed configuration, a batch returned by __getitem__ holds
\* exactly batch_size mains windows and batch_size appliance windows, each of
\* exactly window_size samples, in both variants.
C2_BatchesComplete ==
    (ConfigWellFormed(wandb_config) /\ last.op = "getitem" /\ last.kind = "returned")
        => /\ Len(last.X) = wandb_config.batch_size
           /\ Len(last.y) = wandb_config.batch_size
           /\ \A i \in 1..Len(last.X) : Len(last.X[i]) = wandb_config.window_size
           /\ \A i \in 1..Len(last.y) : Len(last.y[i]) = wandb_config.window_size

\* The epoch length the claim computes from the mains timeframe metadata.
MetadataSamples(building) ==
    (building.mains_tf.end - building.mains_tf.start) \div SamplePeriod

\* C8: for a well-formed configuration, __len__ returns the total mains
\* duration divided by the sample period, by window_size and by batch_size.
C8_LenFromMetadata ==
    (ConfigWellFormed(wandb_config) /\ last.op = "len" /\ last.kind = "returned")
        => last.value =
               (SumSeq(AsSeq([i \in 1..Len(buildings) |->
                                 MetadataSamples(buildings[i])]))
                    \div wandb_config.window_size) \div wandb_config.batch_size

\* C9: a generator that was constructed (so that batches can be fetched from
\* it) has a well-formed configuration.
C9_MalformedConfigRejected ==
    gen_pc = "ready" => ConfigWellFormed(wandb_config)

(***************************************************************************)
(* The traversal pass of time_series_uk_dale.py written out as a list: the *)
(* windows of every chunk of every building, in building, chunk and        *)
(* position order.                                                         *)
(***************************************************************************)
\* Window k (0-based) of a processed chunk: samples [k*W, (k+1)*W).
TiledWindows(out, W) ==
    AsSeq([k \in 1..(Len(out.mains) \div W) |->
              <<SubSeq(out.mains, (k - 1) * W + 1, k * W),
                SubSeq(out.appliance, (k - 1) * W + 1, k * W)>>])

ChunkWindows(chunks, cfg) ==
    Concat(AsSeq([c \in 1..Len(chunks) |->
        TiledWindows(process_data_uk_dale(chunks[c][1], chunks[c][2],
                                          cfg, GenMean, GenStd),
                     cfg.window_size)]))

PassWindows(bs, cfg) ==
    Concat(AsSeq([b \in 1..Len(bs) |-> ChunkWindows(zip_load(bs[b]), cfg)]))

\* The latest fetch delivered, as its j-th window (0-based), window
\* (i * batch_size + j) mod T of the pass, i being the number of fetches
\* made before it.
DeliveredCyclically(pass) ==
    /\ Len(last.X) = wandb_config.batch_size
    /\ Len(last.y) = wandb_config.batch_size
    /\ \A j \in 0..(wandb_config.batch_size - 1) :
          <<last.X[j + 1], last.y[j + 1]>> =
              pass[(((fetches - 1) * wandb_config.batch_size + j) % Len(pass)) + 1]

\* C11: on a time_series_uk_dale.py generator with a well-formed
\* configuration whose pass yields T >= 1 windows, every fetch returns, and
\* the j-th window of the i-th fetch is window (i * batch_size + j) mod T of
\* the pass: the stream wraps to the first window of the first building and
\* no window is skipped, reordered or repeated within a pass.
C11_CyclicTraversalOrder ==
    (/\ variant = "uk_dale"
     /\ ConfigWellFormed(wandb_config)
     /\ last.op = "getitem"
     /\ PassWindows(buildings, wandb_config) # <<>>)
        => /\ last.kind = "returned"
           /\ DeliveredCyclically(PassWindows(buildings, wandb_config))

\* A fetch that wrapped in the middle of its batch: the pass does not divide
\* into batches and the fetches made so far ran past its end.
C11_Witness ==
    /\ variant = "uk_dale"
    /\ ConfigWellFormed(wandb_config)
    /\ last.op = "getitem" /\ last.kind = "returned"
    /\ Len(buildings) = 2
    /\ Len(PassWindows(buildings, wandb_config)) >= 3
    /\ Len(PassWindows(buildings, wandb_config)) % wandb_config.batch_size # 0
    /\ fetches * wandb_config.batch_size > Len(PassWindows(buildings, wandb_config))
    /\ ((fetches - 1) * wandb_config.batch_size) % Len(PassWindows(buildings, wandb_config))
           > (fetches * wandb_config.batch_size - 1) % Len(PassWindows(buildings, wandb_config))

\* C12: in data/generator.py the sub-intervals of a building are
\* consecutive: when the generator stands at a yield whose sub-interval
\* ends before the building's overlapping range does, the next chunk is of
\* the same building and starts where that sub-interval ended (so the range
\* is used up after ceil((end - start) / 15 days) chunks and the next
\* building is reached).  Stated for batch_size = 1, where one fetch is one
\* next().
C12_SubIntervalsConsecutive ==
    [][(/\ variant = "generator"
        /\ ConfigWellFormed(wandb_config)
        /\ wandb_config.batch_size = 1
        /\ data_generator.st = "suspended"
        /\ data_generator.current_end < end_date(buildings[data_generator.b])
        /\ fetches' = fetches + 1)
       => (/\ data_generator'.st = "suspended"
           /\ data_generator'.b = data_generator.b
           /\ data_generator'.current_start = data_generator.current_end)]_vars

(***************************************************************************)
(* The final debounced status of the aligned samples of one _process_data  *)
(* call, recomputed from the inputs of the call.                           *)
(***************************************************************************)
AlignedAppliancePower(v, mains_in, appliance_in, cfg) ==
    IF v = "uk_dale"
    THEN align_inner_grid(
             drop_duplicated(mains_in),
             AsSeq([i \in 1..Len(appliance_in) |->
                       [t |-> appliance_in[i].t,
                        p |-> clip(appliance_in[i].p,
                                   cfg.on_threshold, cfg.max_power)]]))
    ELSE align_inner(drop_duplicated(sort_index(mains_in)),
                     drop_duplicated(sort_index(appliance_in)))

RowPowers(rows) == AsSeq([k \in 1..Len(rows) |-> rows[k].a])

FinalStatus(v, mains_in, appliance_in, cfg) ==
    debounced_status(RowPowers(AlignedAppliancePower(v, mains_in, appliance_in, cfg)),
                     cfg)

\* The value an off sample has: 0 in time_series_uk_dale.py, the ignore
\* sentinel 1.0 in data/generator.py.
OffValue(v) == IF v = "uk_dale" THEN 0 ELSE 1

ValuesMatchStatus(v, out, status, cfg) ==
    /\ Len(out) = Len(status)
    /\ \A k \in 1..Len(out) :
          IF status[k] = 0
          THEN out[k] = OffValue(v)
          ELSE cfg.on_threshold <= out[k] /\ out[k] <= cfg.max_power

\* C13: with on_threshold <= max_power, every sample of the appliance
\* output of _process_data whose final debounced status is off has the off
\* value of its variant, and every sample whose final status is on (bridged
\* ones included) has a value within [on_threshold, max_power].
C13_ApplianceValuesByStatus ==
    (proc_pc = "returned" /\ proc_cfg.on_threshold <= proc_cfg.max_power)
        => ValuesMatchStatus(proc_variant, proc_out.appliance,
               FinalStatus(proc_variant, proc_mains_in, proc_appliance_in, proc_cfg),
               proc_cfg)

====
